---------------------------- MODULE Spec2Model ----------------------------
(***************************************************************************)
(* The trie of trie/src/lib.rs: Trie::new, Trie::insert, Trie::contains    *)
(* and Trie::match_off_by_one, driven by a single caller that performs one *)
(* call at a time.                                                         *)
(*                                                                         *)
(* A string is a sequence of chars.  A node is identified by the sequence  *)
(* of HashMap keys that leads to it from the root (the root is <<>>), and  *)
(* the trie is a function from the nodes that exist to their `val` and     *)
(* `leaf` fields; a node's `children` are the nodes one key longer.        *)
(***************************************************************************)
EXTENDS Integers, Sequences, FiniteSets, TLC

\* Longest string, in chars, that the caller passes to an operation.
MaxLen == 2

\* Most distinct strings the caller inserts.
MaxInserts == 2

\* Most lines the day-two driver reads from its input file.
MaxLines == 3

\* The chars the caller draws from: two one-byte chars and one char whose
\* UTF-8 encoding takes two bytes.
Chars == {"a", "b", "U+00E9"}

\* The `val` of the root node, `0 as char`.
NUL == "U+0000"

RECURSIVE SeqsUpTo(_)
SeqsUpTo(n) ==
    IF n = 0 THEN {<<>>}
    ELSE LET shorter == SeqsUpTo(n - 1)
         IN  shorter \cup {Append(s, c) : s \in {t \in shorter : Len(t) = n - 1}, c \in Chars}

\* Every string the caller may pass.
Strings == SeqsUpTo(MaxLen)

\* Option<T>, the unit return of insert, and a panic that unwinds the call.
None == [tag |-> "None"]
Some(x) == [tag |-> "Some", v |-> x]
Unit == [tag |-> "Unit"]
Panic == [tag |-> "Panic"]

\* char::len_utf8.
len_utf8(c) == IF c = "U+00E9" THEN 2 ELSE 1

\* String::len: the length of the string's UTF-8 encoding in bytes.
RECURSIVE len(_)
len(s) == IF s = <<>> THEN 0 ELSE len_utf8(Head(s)) + len(Tail(s))

\* val.chars().skip(n): the chars of val after the first n chars.
skip(val, n) == IF n >= Len(val) THEN <<>> ELSE SubSeq(val, n + 1, Len(val))

\* node.children.values(): the child nodes of a node.
children(t, node) == {n \in DOMAIN t : Len(n) = Len(node) + 1 /\ SubSeq(n, 1, Len(node)) = node}

\* node.children.get(&c): the child reached by key c, if any.
get(t, node, c) == IF Append(node, c) \in DOMAIN t THEN Some(Append(node, c)) ELSE None

\* Trie::new: a root with val 0, no children and no leaf.
new == (<<>> :> [val |-> NUL, leaf |-> None])

\* insert with children.insert(c, ..) in place of entry(c).or_insert(..): a
\* fresh node replaces the child that was there, and its subtree with it.
RECURSIVE insert_from_overwrite(_, _, _, _)
insert_from_overwrite(t, val, i, current) ==
    IF i > Len(val) THEN [t EXCEPT ![current].leaf = Some(val)]
    ELSE LET c == val[i]
             child == Append(current, c)
             below(n) == Len(n) >= Len(child) /\ SubSeq(n, 1, Len(child)) = child
             kept == {n \in DOMAIN t : ~below(n)}
             t2 == [n \in kept |-> t[n]] @@ (child :> [val |-> c, leaf |-> None])
         IN  insert_from_overwrite(t2, val, i + 1, child)

\* insert with the leaf assignment inside the loop: every node on the path,
\* the root included, gets leaf = Some(val).
RECURSIVE insert_from_mark_path(_, _, _, _)
insert_from_mark_path(t, val, i, current) ==
    IF i > Len(val) THEN [t EXCEPT ![current].leaf = Some(val)]
    ELSE LET c == val[i]
             child == Append(current, c)
             t1 == [t EXCEPT ![current].leaf = Some(val)]
             t2 == IF child \in DOMAIN t1 THEN t1
                   ELSE t1 @@ (child :> [val |-> c, leaf |-> None])
         IN  insert_from_mark_path(t2, val, i + 1, child)

\* insert with the leaf assignment on self.root instead of on current.
RECURSIVE insert_from_leaf_at_root(_, _, _, _)
insert_from_leaf_at_root(t, val, i, current) ==
    IF i > Len(val) THEN [t EXCEPT ![<<>>].leaf = Some(val)]
    ELSE LET c == val[i]
             child == Append(current, c)
             t2 == IF child \in DOMAIN t THEN t
                   ELSE t @@ (child :> [val |-> c, leaf |-> None])
         IN  insert_from_leaf_at_root(t2, val, i + 1, child)

\* The loop of insert from the i-th char on: entry(c).or_insert(..) keeps an
\* existing child and creates a missing one; the node where the loop ends
\* gets leaf = Some(val).
RECURSIVE insert_from(_, _, _, _)
insert_from(t, val, i, current) ==
    IF i > Len(val) THEN [t EXCEPT ![current].leaf = Some(val)]
    ELSE LET c == val[i]
             child == Append(current, c)
             t2 == IF child \in DOMAIN t THEN t
                   ELSE t @@ (child :> [val |-> c, leaf |-> None])
         IN  insert_from(t2, val, i + 1, child)

\* Trie::insert.
insert(t, val) == insert_from(t, val, 1, <<>>)

\* contains whose Some(node) arm does not advance current: every char is
\* looked up among the children of the root.
RECURSIVE contains_from_stuck(_, _, _, _)
contains_from_stuck(t, val, i, current) ==
    IF i > Len(val) THEN Some(current)
    ELSE LET next == get(t, current, val[i])
         IN  IF next = None THEN None
             ELSE contains_from_stuck(t, val, i + 1, current)

\* The loop of contains from the i-th char on.
RECURSIVE contains_from(_, _, _, _)
contains_from(t, val, i, current) ==
    IF i > Len(val) THEN Some(current)
    ELSE LET next == get(t, current, val[i])
         IN  IF next = None THEN None
             ELSE contains_from(t, val, i + 1, next.v)

\* Trie::contains: a reference to the node at the end of val's path.
contains(t, val) == contains_from(t, val, 1, <<>>)

\* The first loop of match_off_by_one: follow the chars of `chars` from
\* `current` until one has no edge, pushing each followed char.
RECURSIVE walk(_, _, _, _)
walk(t, chars, current, pushed) ==
    IF chars = <<>> THEN [node |-> current, str |-> pushed]
    ELSE LET next == get(t, current, Head(chars))
         IN  IF next = None THEN [node |-> current, str |-> pushed]
             ELSE walk(t, Tail(chars), next.v, Append(pushed, Head(chars)))

\* val.len() - 1 on usize.  A debug build panics when the subtraction
\* overflows; a release build wraps modulo 2^64, and the wrapped value is
\* written here by its representative -1 (it is only ever compared for
\* equality with sums of string lengths, which are far below 2^63).
usize_sub(a, b, build) ==
    IF a >= b THEN Some(a - b)
    ELSE IF build = "debug" THEN Panic
    ELSE Some(a - b)

\* The builds of the crate.
Builds == {"debug", "release"}

\* try_child with val.chars().skip(prefix.len()): the char at the divergence
\* is not skipped.
try_child_no_skip(t, val, prefix, child, build) ==
    LET w == walk(t, skip(val, len(prefix)), child, <<>>)
        suffix == w.str
        want == usize_sub(len(val), 1, build)
    IN  IF want = Panic THEN Panic
        ELSE IF len(prefix) + len(suffix) = want.v THEN Some(prefix \o suffix)
        ELSE None

\* try_child that returns the string found in the trie, the child's own char
\* included, instead of the chars it has in common with val.
try_child_with_val(t, val, prefix, child, build) ==
    LET w == walk(t, skip(val, len(prefix) + 1), child, <<>>)
        suffix == w.str
        want == usize_sub(len(val), 1, build)
    IN  IF want = Panic THEN Panic
        ELSE IF len(prefix) + len(suffix) = want.v
             THEN Some(prefix \o <<t[child].val>> \o suffix)
        ELSE None

\* try_child whose length test is <= instead of ==: a suffix that was only
\* partly found is accepted.
try_child_le(t, val, prefix, child, build) ==
    LET w == walk(t, skip(val, len(prefix) + 1), child, <<>>)
        suffix == w.str
        want == usize_sub(len(val), 1, build)
    IN  IF want = Panic THEN Panic
        ELSE IF len(prefix) + len(suffix) <= want.v THEN Some(prefix \o suffix)
        ELSE None

\* The body of the second loop of match_off_by_one for one child: the suffix
\* found below the child, and whether the length test accepts it.
try_child(t, val, prefix, child, build) ==
    LET w == walk(t, skip(val, len(prefix) + 1), child, <<>>)
        suffix == w.str
        want == usize_sub(len(val), 1, build)
    IN  IF want = Panic THEN Panic
        ELSE IF len(prefix) + len(suffix) = want.v THEN Some(prefix \o suffix)
        ELSE None

\* Trie::match_off_by_one: the set of results the call can have.  The
\* children are visited in the HashMap's arbitrary order and the first one
\* that passes the length test is returned.
match_off_by_one(t, val, build) ==
    LET p == walk(t, val, <<>>, <<>>)
        tried == {try_child(t, val, p.str, child, build) : child \in children(t, p.node)}
    IN  IF Panic \in tried THEN {Panic}
        ELSE IF tried \subseteq {None} THEN {None}
        ELSE tried \ {None}

VARIABLES
    trie,      \* the nodes of the trie and their fields
    inserted,  \* history: the strings passed to insert so far
    op,        \* the call that has just returned ("idle" between calls)
    arg,       \* its argument
    ret,       \* its result
    again,     \* history: the call was an insert of a string inserted before
    pc,            \* day-two main: where it is ("none" when main is not running)
    string,        \* day-two main: the line being processed
    maybe_match,   \* day-two main: the recorded match
    double_count,  \* day-two main: lines with a char that occurs twice
    triple_count,  \* day-two main: lines with a char that occurs three times
    nread,         \* history: the lines read so far
    out            \* day-two main: what the final match prints

\* The locals of day-two main.
main_vars == <<pc, string, maybe_match, double_count, triple_count, nread, out>>

vars == <<trie, inserted, op, arg, ret, again, main_vars>>

\* The trie is used on its own: day-two main is not running.
NoMain ==
    /\ pc = "none"
    /\ string = <<>>
    /\ maybe_match = None
    /\ double_count = 0
    /\ triple_count = 0
    /\ nread = 0
    /\ out = Unit

Init ==
    /\ trie = new
    /\ inserted = {}
    /\ op = "new"
    /\ arg = <<>>
    /\ ret = Unit
    /\ again = FALSE
    /\ NoMain

\* The caller is between two calls.
Idle == op = "idle"

Insert(s) ==
    /\ Idle
    /\ s \in inserted \/ Cardinality(inserted) < MaxInserts
    /\ trie' = insert(trie, s)
    /\ inserted' = inserted \cup {s}
    /\ op' = "insert"
    /\ arg' = s
    /\ ret' = Unit
    /\ again' = (s \in inserted)
    /\ UNCHANGED main_vars

Contains(s) ==
    /\ Idle
    /\ op' = "contains"
    /\ arg' = s
    /\ ret' = contains(trie, s)
    /\ UNCHANGED <<trie, inserted, again, main_vars>>

MatchOffByOne(s) ==
    /\ Idle
    /\ op' = "match_off_by_one"
    /\ arg' = s
    /\ \E build \in Builds : ret' \in match_off_by_one(trie, s, build)
    /\ UNCHANGED <<trie, inserted, again, main_vars>>

\* The caller is done with the result of the last call.
Drop ==
    /\ ~Idle
    /\ op' = "idle"
    /\ arg' = <<>>
    /\ ret' = Unit
    /\ again' = FALSE
    /\ UNCHANGED <<trie, inserted, main_vars>>

Next ==
    \/ \E s \in Strings : Insert(s)
    \/ \E s \in Strings : Contains(s)
    \/ \E s \in Strings : MatchOffByOne(s)
    \/ Drop

Spec == Init /\ [][Next]_vars

TypeOK ==
    /\ DOMAIN trie \subseteq Strings
    /\ inserted \subseteq Strings
    /\ op \in {"new", "idle", "insert", "contains", "match_off_by_one"}
    /\ arg \in Strings
    /\ again \in BOOLEAN
    /\ pc \in {"none", "loop", "match", "insert", "print", "done", "panicked"}
    /\ string \in Strings
    /\ maybe_match = None \/ (maybe_match.tag = "Some" /\ maybe_match.v \in Strings)
    /\ double_count \in 0..nread
    /\ triple_count \in 0..nread
    /\ nread \in 0..MaxLines

-----------------------------------------------------------------------------
(* day-two/src/main.rs: the loop over the lines of the input file. *)

\* Part 1 of the loop body: some char occurs exactly k times in the line.
found(line, k) ==
    \E c \in Chars : Cardinality({i \in 1..Len(line) : line[i] = c}) = k

\* A guard that always lets part 2 run.
is_none_always(m) == TRUE

\* maybe_match.is_none().
is_none(m) == m = None

MainInit ==
    /\ trie = new
    /\ inserted = {}
    /\ op = "new"
    /\ arg = <<>>
    /\ ret = Unit
    /\ again = FALSE
    /\ pc = "loop"
    /\ string = <<>>
    /\ maybe_match = None
    /\ double_count = 0
    /\ triple_count = 0
    /\ nread = 0
    /\ out = Unit

\* reader.lines() yields the line l: part 1 counts it, and part 2 runs only
\* while no match is recorded; otherwise the iteration ends here and the
\* line is dropped.
NextLine(l) ==
    /\ pc = "loop"
    /\ nread < MaxLines
    /\ string' = IF is_none(maybe_match) THEN l ELSE <<>>
    /\ nread' = nread + 1
    /\ double_count' = IF found(l, 2) THEN double_count + 1 ELSE double_count
    /\ triple_count' = IF found(l, 3) THEN triple_count + 1 ELSE triple_count
    /\ pc' = IF is_none(maybe_match) THEN "match" ELSE "loop"
    /\ UNCHANGED <<trie, inserted, op, arg, ret, again, maybe_match, out>>

\* reader.lines() yields an error and line.unwrap() panics.
ReadFails ==
    /\ pc = "loop"
    /\ pc' = "panicked"
    /\ UNCHANGED <<trie, inserted, op, arg, ret, again>>
    /\ UNCHANGED <<string, maybe_match, double_count, triple_count, nread, out>>

\* maybe_match = trie.match_off_by_one(&string); a panic in the call ends main.
CallMatch ==
    /\ pc = "match"
    /\ op' = "match_off_by_one"
    /\ arg' = string
    /\ \E build \in Builds : ret' \in match_off_by_one(trie, string, build)
    /\ maybe_match' = IF ret' = Panic THEN maybe_match ELSE ret'
    /\ pc' = IF ret' = Panic THEN "panicked" ELSE "insert"
    /\ UNCHANGED <<trie, inserted, again>>
    /\ UNCHANGED <<string, double_count, triple_count, nread, out>>

\* trie.insert(string): the line is moved into the call, and the iteration
\* ends.
CallInsert ==
    /\ pc = "insert"
    /\ trie' = insert(trie, string)
    /\ inserted' = inserted \cup {string}
    /\ op' = "insert"
    /\ arg' = string
    /\ ret' = Unit
    /\ again' = (string \in inserted)
    /\ pc' = "loop"
    /\ string' = <<>>
    /\ UNCHANGED <<maybe_match, double_count, triple_count, nread, out>>

\* reader.lines() is exhausted.
EndOfInput ==
    /\ pc = "loop"
    /\ pc' = "print"
    /\ UNCHANGED <<trie, inserted, op, arg, ret, again>>
    /\ UNCHANGED <<string, maybe_match, double_count, triple_count, nread, out>>

\* The two println! after the loop: the checksum, then the match or its absence.
Report ==
    /\ pc = "print"
    /\ out' = [checksum |-> double_count * triple_count, found |-> maybe_match]
    /\ pc' = "done"
    /\ UNCHANGED <<trie, inserted, op, arg, ret, again>>
    /\ UNCHANGED <<string, maybe_match, double_count, triple_count, nread>>

MainNext ==
    \/ \E l \in Strings : NextLine(l)
    \/ ReadFails
    \/ CallMatch
    \/ CallInsert
    \/ EndOfInput
    \/ Report

MainSpec == MainInit /\ [][MainNext]_vars

-----------------------------------------------------------------------------
(* Vocabulary of the claims. *)

\* s is a prefix of t.
IsPrefix(s, t) == Len(s) <= Len(t) /\ SubSeq(t, 1, Len(s)) = s

\* The char positions where two strings of the same length differ.
DiffAt(s, q) == {i \in 1..Len(q) : s[i] # q[i]}

\* s has the length of q and differs from it in exactly one position.
OffByOne(s, q) == Len(s) = Len(q) /\ Cardinality(DiffAt(s, q)) = 1

\* q without its i-th char.
RemoveAt(q, i) == SubSeq(q, 1, i - 1) \o SubSeq(q, i + 1, Len(q))

Matched == op = "match_off_by_one"
Looked == op = "contains"

\* C1: when match_off_by_one(q) returns Some, some inserted string has the
\* length of q and differs from q in exactly one char position.
C1_SomeOnlyForNeighbour ==
    (Matched /\ ret.tag = "Some") => \E s \in inserted : OffByOne(s, arg)

\* C2: when q was not inserted and some inserted string has the length of q
\* and differs from it in exactly one position, match_off_by_one(q) returns
\* Some.
C2_NeighbourAlwaysFound ==
    (Matched /\ arg \notin inserted /\ \E s \in inserted : OffByOne(s, arg))
        => ret.tag = "Some"

\* C3: match_off_by_one(s) returns None for every inserted string s.
C3_ExactMatchIsNone ==
    (Matched /\ arg \in inserted) => ret = None

\* C4: for every inserted string s, contains(s) returns Some(node) with
\* node.leaf = Some(s), whatever else was inserted before or after.
C4_ContainsFindsInserted ==
    (Looked /\ arg \in inserted) => (ret.tag = "Some" /\ trie[ret.v].leaf = Some(arg))

C4_Witness ==
    /\ Looked
    /\ arg \in inserted
    /\ \E s \in inserted : s # arg /\ IsPrefix(arg, s)
    /\ ret.tag = "Some"

\* C5: contains(s) returns None for every s that was never inserted and is
\* a prefix of no inserted string, and for every s on an empty trie.
C5_ContainsNoneForAbsent ==
    /\ (Looked /\ arg \notin inserted /\ \A s \in inserted : ~IsPrefix(arg, s))
           => ret = None
    /\ (Looked /\ inserted = {}) => ret = None

\* C6: on a trie holding exactly one non-empty string s, for q of the length
\* of s, match_off_by_one(q) returns Some(q without the differing char) when
\* q differs from s in exactly one position, and None when it differs in two
\* or more.
C6_SingleStringTrie ==
    \A s \in inserted :
        (Matched /\ inserted = {s} /\ s # <<>> /\ Len(arg) = Len(s))
            => /\ Cardinality(DiffAt(s, arg)) = 1
                   => \E i \in DiffAt(s, arg) : ret = Some(RemoveAt(arg, i))
               /\ Cardinality(DiffAt(s, arg)) >= 2 => ret = None

\* C7: insert(s) of a string s that was inserted before changes no node, no
\* children mapping and no leaf, so every contains and match_off_by_one
\* query has the results it had.
C7_InsertIdempotent ==
    [][(op' = "insert" /\ arg' \in inserted)
          => /\ trie' = trie
             /\ \A q \in Strings :
                  /\ contains(trie', q) = contains(trie, q)
                  /\ \A build \in Builds :
                       match_off_by_one(trie', q, build) = match_off_by_one(trie, q, build)]_vars

C7_Witness ==
    /\ op = "insert"
    /\ again
    /\ Cardinality(DOMAIN trie) >= 3
    /\ \E s \in inserted : s # arg /\ IsPrefix(arg, s)

\* C8: insert, contains and match_off_by_one always complete with a normal
\* result and never panic.
C8_NoPanic == ret.tag \in {"Unit", "None", "Some"}

\* C9: in every reachable state the leaf of the root is None.
C9_RootLeafNone == trie[<<>>].leaf = None

\* C9, amended: the leaf of the root is None until the empty string is
\* inserted and Some("") from then on; inserting a non-empty string never
\* sets it.
C9_RootLeafOnlyForEmpty ==
    trie[<<>>].leaf = (IF <<>> \in inserted THEN Some(<<>>) ELSE None)

C9_Witness ==
    /\ op = "insert"
    /\ arg # <<>>
    /\ <<>> \in inserted
    /\ trie[<<>>].leaf = Some(<<>>)

\* C10: a node's leaf is Some(t) exactly when the string spelled by the
\* edges from the root to the node was inserted, and then t is that string;
\* so contains(s), for s a proper prefix of inserted strings that was not
\* itself inserted, returns a node whose leaf is None.
C10_LeafIffInserted ==
    /\ \A n \in DOMAIN trie :
         /\ trie[n].leaf # None <=> n \in inserted
         /\ trie[n].leaf # None => trie[n].leaf = Some(n)
    /\ (Looked /\ arg \notin inserted /\ \E s \in inserted : IsPrefix(arg, s))
           => (ret.tag = "Some" /\ trie[ret.v].leaf = None)

C10_Witness ==
    /\ Looked
    /\ arg \notin inserted
    /\ arg # <<>>
    /\ \E s \in inserted : IsPrefix(arg, s)
    /\ ret.tag = "Some"
    /\ \E n \in DOMAIN trie : trie[n].leaf # None

\* The first index (from 0) where the path of q leaves the trie: the length
\* of the longest prefix of q that is a node.
LeavesAt(t, q) ==
    CHOOSE p \in 0..Len(q) :
        /\ SubSeq(q, 1, p) \in DOMAIN t
        /\ \A k \in (p + 1)..Len(q) : SubSeq(q, 1, k) \notin DOMAIN t

\* C11: when match_off_by_one(q) returns Some(common), common is q without
\* the char at the first index p where the path of q leaves the trie, that
\* is q[0..p] followed by q[p+1..], and it is one shorter than q.
C11_CommonDropsDivergingChar ==
    (Matched /\ ret.tag = "Some")
        => LET p == LeavesAt(trie, arg)
           IN  /\ p < Len(arg)
               /\ ret.v = SubSeq(arg, 1, p) \o SubSeq(arg, p + 2, Len(arg))
               /\ Len(ret.v) = Len(arg) - 1
               /\ len(ret.v) = len(arg) - 1

C11_Witness ==
    /\ Matched
    /\ ret.tag = "Some"
    /\ Len(arg) = MaxLen
    /\ LeavesAt(trie, arg) > 0
    /\ ret.v # <<>>

\* C12: insert(s) only adds.  Every node is still there after the call, with
\* the same edge label, the leaf of every node but the one at the end of the
\* path of s is unchanged, and every string t inserted before still has
\* contains(t).leaf = Some(t); contains and match_off_by_one leave the trie
\* as it is.
C12_InsertOnlyAdds ==
    [][/\ op' = "insert"
          => /\ DOMAIN trie \subseteq DOMAIN trie'
             /\ \A n \in DOMAIN trie :
                  /\ trie'[n].val = trie[n].val
                  /\ n # arg' => trie'[n].leaf = trie[n].leaf
             /\ \A n \in DOMAIN trie' \ {<<>>} : trie'[n].val = n[Len(n)]
             /\ \A t \in inserted :
                  /\ contains(trie', t).tag = "Some"
                  /\ trie'[contains(trie', t).v].leaf = Some(t)
       /\ op' \in {"contains", "match_off_by_one"} => trie' = trie]_vars

C12_Witness ==
    /\ op = "insert"
    /\ ~again
    /\ \E t \in inserted :
         /\ t # arg
         /\ t # <<>>
         /\ IsPrefix(t, arg)
         /\ trie[t].leaf = Some(t)
    /\ Cardinality(DOMAIN trie) >= 3

\* The children of the divergence node of q that pass the length test.
Passing(t, q, build) ==
    LET p == walk(t, q, <<>>, <<>>)
    IN  {c \in children(t, p.node) : try_child(t, q, p.str, c, build).tag = "Some"}

\* C14: for a fixed set of inserted strings and a fixed q, the result of
\* match_off_by_one(q) is the same None or the same Some(common) in whatever
\* order the children of the divergence node are visited.
C14_OrderIndependent ==
    Matched =>
        \A build \in Builds :
            ret \in match_off_by_one(trie, arg, build)
                => match_off_by_one(trie, arg, build) = {ret}

C14_Witness ==
    /\ Matched
    /\ ret.tag = "Some"
    /\ \A build \in Builds : Cardinality(Passing(trie, arg, build)) >= 2

\* C15: when every inserted string has the same non-zero length n and q has
\* length n too, every Some(common) that match_off_by_one(q) returns is
\* genuine: the node reached, at depth n, is the terminal of an inserted
\* string that differs from q in exactly one position.
C15_GenuineForEqualLengths ==
    (/\ Matched
     /\ ret.tag = "Some"
     /\ Len(arg) > 0
     /\ \A s \in inserted : Len(s) = Len(arg))
        => \A build \in Builds :
             \A c \in Passing(trie, arg, build) :
                LET p == walk(trie, arg, <<>>, <<>>)
                    end == walk(trie, skip(arg, len(p.str) + 1), c, <<>>).node
                IN  /\ Len(end) = Len(arg)
                    /\ trie[end].leaf = Some(end)
                    /\ end \in inserted
                    /\ OffByOne(end, arg)

C15_Witness ==
    /\ Matched
    /\ ret.tag = "Some"
    /\ Len(arg) = MaxLen
    /\ Cardinality(inserted) = MaxInserts
    /\ \A s \in inserted : Len(s) = Len(arg)

\* C13: in the day-two loop a line is passed to match_off_by_one before that
\* same line is inserted; once match_off_by_one has returned Some, neither
\* match_off_by_one nor insert is called for a later line, and the recorded
\* match stays as it is until it is printed.
C13_MatchBeforeInsertThenStop ==
    [][/\ op' = "insert" /\ pc = "insert"
          => /\ op = "match_off_by_one"
             /\ arg = string
             /\ arg' = arg
             /\ nread' = nread
       /\ pc' = "match" => maybe_match = None
       /\ maybe_match.tag = "Some"
          => /\ maybe_match' = maybe_match
             /\ pc # "insert" => UNCHANGED <<trie, inserted, op, arg, ret>>
             /\ pc = "insert" => (ret = maybe_match /\ arg = string)
       /\ pc' = "done" => out'.found = maybe_match]_vars

C13_Witness ==
    /\ pc = "done"
    /\ nread = MaxLines
    /\ maybe_match.tag = "Some"
    /\ out.found = maybe_match
    /\ op = "insert"
    /\ Cardinality(inserted) = 2

=============================================================================
